---- MODULE Spec2Model ----
(***************************************************************************)
(* Model of cheek: the Command value model and the execution sequencer of  *)
(* src/cheek/commands.py.  A Python list is a sequence.  A Command         *)
(* instance is a record of its class name, its validated field values and  *)
(* the set of fields that were bound.  A string the program builds is the  *)
(* sequence of the pieces it is built from (a name, a rendered value, a    *)
(* punctuation character); its text is their concatenation.                *)
(***************************************************************************)
EXTENDS Integers, Sequences, FiniteSets, TLC

VARIABLES
    _command_classes,   \* commands.py:61, the registered Command subclasses
    command_class,      \* the class a constructor call was made on
    kwargs,             \* keyword arguments of that call, in call order
    cmd,                \* the Command instance the constructor call produced
    err,                \* the exception a constructor call or a do() run raised
    line,               \* the last value read from the .command property
    pc,                 \* position of the do() run
    commands,           \* do(): the *commands argument
    delay,              \* do(): the intercommand_delay argument, in ms
    it,                 \* do(): number of commands the two loops have taken
    results,            \* do(): the local list results
    returned,           \* do(): the value handed to the caller
    trace,              \* issuances, responses, failures and sleeps, in order
    engine,             \* lines the engine has executed (its side effects)
    name_map,           \* construct_command_from_kwargs: the local name_map
    field_info,         \* the argument of field_info_to_click_type
    click_type,         \* what field_info_to_click_type returned
    cli_pc,             \* which function of cli.py ran, and how far
    cli_idx,            \* build_cli: position of the loop over the classes
    cli_group,          \* build_cli: the sub-commands attached to the group
    soup,               \* parse_commands: the parsed document, << >> before
    main_pc,            \* position of the run of cheek.extract's main()
    row_idx,            \* parse_commands: the row the two loops are at
    yielded,            \* the commands parse_commands has yielded to tuple()
    main_commands,      \* main(): the local commands
    emit_idx,           \* main(): position of the loop over commands
    stdout,             \* what main() has printed, one entry per print()
    main_err,           \* the exception that left main()
    listed,             \* the list a caller got from all_command_classes()
    registered          \* the classes register_command was called on later

cliVars == <<name_map, field_info, click_type, cli_pc, cli_idx, cli_group>>
extractVars == <<soup, main_pc, row_idx, yielded, main_commands, emit_idx,
                 stdout, main_err>>
registryVars == <<listed, registered>>
toolVars == <<cliVars, extractVars, registryVars>>
valueVars == <<command_class, kwargs, cmd, err, line>>
doVars == <<pc, commands, delay, it, results, returned, trace, engine>>
vars == <<_command_classes, command_class, kwargs, cmd, err, line,
          pc, commands, delay, it, results, returned, trace, engine, toolVars>>

(***************************************************************************)
(* Bounds.                                                                 *)
(***************************************************************************)
MaxBound == 2       \* keyword arguments per constructor call
MaxCommands == 3    \* commands per do() call

\* commands.py:42, the default intercommand_delay (0.001 s), in ms
DefaultDelay == 1

(***************************************************************************)
(* Python values.                                                          *)
(***************************************************************************)
None == [k |-> "None"]
IntV(n) == [k |-> "int", n |-> n]
FloatV(n, d) == [k |-> "float", n |-> n, d |-> d]      \* the float n.d
StrV(s) == [k |-> "str", s |-> s]
BoolV(b) == [k |-> "bool", b |-> b]
EnumV(t, id) == [k |-> "enum", t |-> t, id |-> id]     \* member id of Enum class t
ListV(items) == [k |-> "list", items |-> items]
LineV(pieces) == [k |-> "line", pieces |-> pieces]     \* a string the program built

NoValue == [k |-> "NoValue"]     \* no object: the expression raised
Invalid == [k |-> "Invalid"]     \* outcome of a failed field validation

\* commands.py:902-912, the Enum classes of Chirp: member identifier and value
EnumMembers(t) ==
    CASE t = "ChirpWaveform" ->
           << [id |-> "SINE", value |-> "Sine"],
              [id |-> "SQUARE", value |-> "Square"],
              [id |-> "SAWTOOTH", value |-> "Sawtooth"],
              [id |-> "SQUARE_NO_ALIAS", value |-> "Square, no alias"],
              [id |-> "TRIANGLE", value |-> "Triangle"] >>
      [] t = "ChirpInterpolation" ->
           << [id |-> "LINEAR", value |-> "Linear"],
              [id |-> "LOGARITHMIC", value |-> "Logarithmic"] >>
      [] OTHER -> << >>

EnumTypes == {"ChirpWaveform", "ChirpInterpolation"}

Range(s) == {s[i] : i \in DOMAIN s}

\* Python str(value), as the f-string of _field_strings applies it
Str(v) ==
    CASE v.k = "int" -> ToString(v.n)
      [] v.k = "float" -> ToString(v.n) \o "." \o ToString(v.d)
      [] v.k = "str" -> v.s
      [] v.k = "bool" -> IF v.b THEN "True" ELSE "False"
      [] v.k = "enum" -> v.t \o "." \o v.id
      [] OTHER -> "None"

(***************************************************************************)
(* The command classes (a representative part of the catalog: a class      *)
(* without fields, the class that overrides its scripting name, and the    *)
(* classes that declare fields).                                           *)
(***************************************************************************)
\* an annotation: a class; a types.UnionType, which `X | None` gives for
\* classes X; a typing.Union, which `Bool | None` gives because Bool is an
\* Annotated alias (commands.py:55-58) and not a class
Plain(t) == [union |-> FALSE, typing |-> FALSE, args |-> <<t>>]
Union(ts) == [union |-> TRUE, typing |-> FALSE, args |-> ts]
TypingUnion(ts) == [union |-> TRUE, typing |-> TRUE, args |-> ts]
Field(n, a, d) == [name |-> n, ann |-> a, default |-> d]

\* pydantic model_fields of a class: the annotated class attributes, in
\* declaration order
model_fields(cls) ==
    CASE cls = "New" -> << >>
      [] cls = "Open" ->
           << Field("Filename", Union(<<"str", "NoneType">>), None),
              Field("AddToHistory", Plain("Bool"), BoolV(FALSE)) >>
      [] cls = "SetLabel" ->
           << Field("Label", Plain("int"), IntV(0)),
              Field("Text", Union(<<"str", "NoneType">>), None),
              Field("Start", Union(<<"float", "NoneType">>), None),
              Field("End", Union(<<"float", "NoneType">>), None),
              Field("Selected", TypingUnion(<<"Bool", "NoneType">>), None) >>
      [] cls = "Chirp" ->
           << Field("StartFreq", Plain("float"), IntV(440)),
              Field("EndFreq", Plain("float"), IntV(1320)),
              Field("StartAmp", Plain("float"), FloatV(0, 8)),
              Field("EndAmp", Plain("float"), FloatV(0, 1)),
              Field("Waveform", Plain("ChirpWaveform"), EnumV("ChirpWaveform", "SINE")),
              Field("Interpolation", Plain("ChirpInterpolation"),
                    EnumV("ChirpInterpolation", "LINEAR")) >>
      \* a Command subclass a caller declares, outside the catalog, whose two
      \* field names differ only by case
      [] cls = "CaseClash" ->
           << Field("Label", Plain("int"), IntV(0)),
              Field("label", Union(<<"str", "NoneType">>), None) >>
      [] OTHER -> << >>

\* the classes in the order their @register_command decorators run
CatalogClasses == <<"New", "Open", "SetLabel", "Chirp">>

FieldNames(cls) == {model_fields(cls)[i].name : i \in DOMAIN model_fields(cls)}

\* variant: no class overrides the scripting name
_scripting_command_name_base(cls) == cls

\* commands.py:31-34 and its override in Open, commands.py:93-95
_scripting_command_name(cls) == IF cls = "Open" THEN "OpenProject2" ELSE cls

\* commands.py:36-39
user_name(cls) == cls

(***************************************************************************)
(* Construction: pydantic's BaseModel.__init__ validates every bound value *)
(* against the field's annotation (lax mode: an int is accepted for a      *)
(* float field, 0/1 for a bool field, an Enum value for its member) and    *)
(* takes the declared default, unvalidated, for every field left unbound.  *)
(***************************************************************************)
\* the member of Enum class t whose value is s, or Invalid
EnumByValue(t, s) ==
    LET ms == EnumMembers(t)
        hit == {i \in DOMAIN ms : ms[i].value = s}
    IN IF hit = {} THEN Invalid ELSE EnumV(t, ms[CHOOSE i \in hit : TRUE].id)

\* validation of the non-None value v against the concrete type t
ValidateType(t, v) ==
    CASE t = "int" ->
           CASE v.k = "int" -> v
             [] v.k = "bool" -> IntV(IF v.b THEN 1 ELSE 0)
             [] v.k = "float" -> IF v.d = 0 THEN IntV(v.n) ELSE Invalid
             [] OTHER -> Invalid
      [] t = "float" ->
           CASE v.k = "float" -> v
             [] v.k = "int" -> FloatV(v.n, 0)
             [] v.k = "bool" -> FloatV(IF v.b THEN 1 ELSE 0, 0)
             [] OTHER -> Invalid
      [] t = "str" -> IF v.k = "str" THEN v ELSE Invalid
      [] t = "Bool" ->
           CASE v.k = "bool" -> v
             [] v.k = "int" -> IF v.n \in {0, 1} THEN BoolV(v.n = 1) ELSE Invalid
             [] v.k = "float" ->
                  IF v.d = 0 /\ v.n \in {0, 1} THEN BoolV(v.n = 1) ELSE Invalid
             [] OTHER -> Invalid
      [] t \in EnumTypes ->
           CASE v.k = "enum" -> IF v.t = t THEN v ELSE Invalid
             [] v.k = "str" -> EnumByValue(t, v.s)
             [] OTHER -> Invalid
      [] OTHER -> Invalid

\* the first member of an annotation that is not NoneType
ConcreteType(ann) ==
    LET idx == {i \in DOMAIN ann.args : ann.args[i] # "NoneType"}
    IN ann.args[CHOOSE i \in idx : \A j \in idx : i <= j]

\* validation of a bound value against a field's annotation
Validate(ann, v) ==
    IF v = None
    THEN IF "NoneType" \in Range(ann.args) THEN None ELSE Invalid
    ELSE ValidateType(ConcreteType(ann), v)

KwNames(kw) == {kw[i][1] : i \in DOMAIN kw}
KwValue(kw, name) == kw[CHOOSE i \in DOMAIN kw : kw[i][1] = name][2]

\* the value each field gets: the validated bound value, or the default
FieldValues(cls, kw) ==
    [i \in DOMAIN model_fields(cls) |->
        LET f == model_fields(cls)[i]
        IN IF f.name \in KwNames(kw) THEN Validate(f.ann, KwValue(kw, f.name))
           ELSE f.default]

\* variant: the instance is built without validating the bound values
InstantiateUnchecked(cls, kw) ==
    [k |-> "Command", cls |-> cls,
     values |-> [i \in DOMAIN model_fields(cls) |->
                   LET f == model_fields(cls)[i]
                   IN IF f.name \in KwNames(kw) THEN KwValue(kw, f.name) ELSE f.default],
     fields_set |-> KwNames(kw)]

\* cls(**kw): the instance, or NoValue when pydantic raises ValidationError
Instantiate(cls, kw) ==
    LET vals == FieldValues(cls, kw)
    IN IF \E i \in DOMAIN vals : vals[i] = Invalid
       THEN NoValue
       ELSE [k |-> "Command", cls |-> cls, values |-> vals, fields_set |-> KwNames(kw)]

(***************************************************************************)
(* Serialization, commands.py:19-29 and 55-58.                             *)
(***************************************************************************)
\* variant: the serializer returns the bool itself
BoolUnserialized(x) == x

\* commands.py:55-58, the PlainSerializer of Bool: int(x)
Bool(x) == IntV(IF x.b THEN 1 ELSE 0)

\* variant: the fields are dumped last declared first
model_dump_reversed(inst) ==
    LET n == Len(model_fields(inst.cls))
    IN [i \in DOMAIN model_fields(inst.cls) |->
           LET f == model_fields(inst.cls)[n + 1 - i]
               v == inst.values[n + 1 - i]
           IN << f.name,
                 IF ConcreteType(f.ann) = "Bool" /\ v.k = "bool" THEN Bool(v) ELSE v >>]

\* pydantic model_dump(): field name and serialized value, in declared order
model_dump(inst) ==
    [i \in DOMAIN model_fields(inst.cls) |->
        LET f == model_fields(inst.cls)[i]
            v == inst.values[i]
        IN << f.name,
              IF ConcreteType(f.ann) = "Bool" /\ v.k = "bool" THEN Bool(v) ELSE v >>]

\* sep.join(strs)
RECURSIVE Join(_, _)
Join(strs, sep) ==
    IF strs = << >> THEN << >>
    ELSE IF Len(strs) = 1 THEN strs[1]
    ELSE strs[1] \o sep \o Join(Tail(strs), sep)

\* the f-string of commands.py:29
FieldString(field, value) == <<field, "=", "\"", Str(value), "\"">>

IsNotNone(item) == item[2] # None

\* variant: None values are rendered too
_field_strings_all(inst) ==
    [i \in DOMAIN model_dump(inst) |->
        FieldString(model_dump(inst)[i][1], model_dump(inst)[i][2])]

\* commands.py:24-29
_field_strings(inst) ==
    LET kept == SelectSeq(model_dump(inst), IsNotNone)
    IN [i \in DOMAIN kept |-> FieldString(kept[i][1], kept[i][2])]

\* commands.py:19-22
command(inst) ==
    <<_scripting_command_name(inst.cls), ":", " ">> \o Join(_field_strings(inst), <<" ">>)

(***************************************************************************)
(* Inputs.                                                                 *)
(***************************************************************************)
\* values a caller binds: matching, convertible and mismatching ones
InputValues ==
    { None, IntV(0), IntV(42), FloatV(1, 5), StrV("hi"), StrV("Sine"),
      BoolV(TRUE), BoolV(FALSE),
      EnumV("ChirpWaveform", "SQUARE"), EnumV("ChirpInterpolation", "LOGARITHMIC") }

\* keyword argument lists of n arguments, names distinct, any order
KwargsOfLen(cls, n) ==
    {kw \in [1..n -> FieldNames(cls) \X InputValues] :
        \A i, j \in 1..n : kw[i][1] = kw[j][1] => i = j}

NoCall == "none"
NoLine == [k |-> "NoLine"]       \* the property has not been read

\* commands a script passes to do()
SampleCommands ==
    { Instantiate("New", << >>),
      Instantiate("Open", << <<"Filename", StrV("hi")>> >>),
      Instantiate("SetLabel", << <<"Label", IntV(42)>>, <<"Selected", BoolV(TRUE)>> >>) }

RECURSIVE SeqsUpTo(_, _)
SeqsUpTo(S, n) ==
    IF n = 0 THEN {<< >>}
    ELSE LET shorter == SeqsUpTo(S, n - 1)
         IN shorter \cup {Append(s, x) : s \in {t \in shorter : Len(t) = n - 1}, x \in S}

Delays == {DefaultDelay, 5}
Responses == {"OK", "Failed!"}

(***************************************************************************)
(* Initial state.                                                          *)
(***************************************************************************)
Init ==
    /\ _command_classes = CatalogClasses
    /\ command_class = NoCall
    /\ kwargs = << >>
    /\ cmd = NoValue
    /\ err = "none"
    /\ line = NoLine
    /\ pc = "idle"
    /\ commands = << >>
    /\ delay = DefaultDelay
    /\ it = 0
    /\ results = << >>
    /\ returned = NoValue
    /\ trace = << >>
    /\ engine = << >>
    /\ name_map = NoValue
    /\ field_info = NoValue
    /\ click_type = NoValue
    /\ cli_pc = "idle"
    /\ cli_idx = 0
    /\ cli_group = << >>
    /\ soup = << >>
    /\ main_pc = "idle"
    /\ row_idx = 0
    /\ yielded = << >>
    /\ main_commands = NoValue
    /\ emit_idx = 0
    /\ stdout = << >>
    /\ main_err = "none"
    /\ listed = [obj |-> "none", items |-> << >>]
    /\ registered = << >>

(***************************************************************************)
(* Constructing a command and reading its command string.                  *)
(***************************************************************************)
\* command_class(**command_kwargs), cli.py:53; one constructor call per behaviour
Construct(cls, kw) ==
    /\ pc = "idle"
    /\ command_class = NoCall
    /\ command_class' = cls
    /\ kwargs' = kw
    /\ cmd' = Instantiate(cls, kw)
    /\ err' = IF Instantiate(cls, kw) = NoValue THEN "ValidationError" ELSE "none"
    /\ UNCHANGED <<toolVars, _command_classes, line>>
    /\ UNCHANGED doVars

\* reading the property cmd.command
GetCommand ==
    /\ pc = "idle"
    /\ cmd # NoValue
    /\ line = NoLine
    /\ line' = LineV(command(cmd))
    /\ UNCHANGED <<toolVars, _command_classes, command_class, kwargs, cmd, err>>
    /\ UNCHANGED doVars

(***************************************************************************)
(* do(), commands.py:42-52.  A call of pyaudacity.do is an issuance        *)
(* followed by the engine's response or failure.                           *)
(***************************************************************************)
\* entry of do(): cli.py:75 passes the one constructed command with the
\* default delay, a script passes any commands and delay
DoCall(cmds, d) ==
    /\ pc = "idle"
    /\ err = "none"
    /\ IF command_class = NoCall THEN TRUE ELSE cmds = <<cmd>> /\ d = DefaultDelay
    /\ commands' = cmds
    /\ delay' = d
    /\ results' = << >>
    /\ it' = 0
    /\ pc' = "first"
    /\ UNCHANGED <<toolVars, _command_classes, returned, trace, engine>>
    /\ UNCHANGED valueVars

\* variant: the first loop takes commands[:2]
FirstSliceTwo(cmds) == SubSeq(cmds, 1, IF Len(cmds) < 2 THEN Len(cmds) ELSE 2)

\* commands[:1]
FirstSlice(cmds) == SubSeq(cmds, 1, IF Len(cmds) < 1 THEN Len(cmds) ELSE 1)

\* variant: the line is sent and the loop goes on without the response
ExecuteNoWait(inst, next) ==
    /\ trace' = Append(trace, [e |-> "execute", line |-> command(inst)])
    /\ it' = it + 1
    /\ pc' = IF next = "first_call" THEN "first" ELSE "rest"
    /\ UNCHANGED <<toolVars, _command_classes, commands, delay, results, returned, engine>>
    /\ UNCHANGED valueVars

\* the call of pyaudacity.do(command.command): the line is issued
Execute(inst, next) ==
    /\ trace' = Append(trace, [e |-> "execute", line |-> command(inst)])
    /\ pc' = next
    /\ UNCHANGED <<toolVars, _command_classes, commands, delay, it, results, returned, engine>>
    /\ UNCHANGED valueVars

\* commands.py:45-46, the call of pyaudacity.do in the first loop
FirstExecute ==
    /\ pc = "first"
    /\ it < Len(FirstSlice(commands))
    /\ Execute(commands[it + 1], "first_call")

\* the first loop is exhausted
FirstExit ==
    /\ pc = "first"
    /\ it >= Len(FirstSlice(commands))
    /\ pc' = "rest"
    /\ UNCHANGED <<toolVars, _command_classes, commands, delay, it, results, returned, trace, engine>>
    /\ UNCHANGED valueVars

\* commands.py:48-49, time.sleep(intercommand_delay)
Sleep ==
    /\ pc = "rest"
    /\ it < Len(commands)
    /\ trace' = Append(trace, [e |-> "sleep", ms |-> delay])
    /\ pc' = "slept"
    /\ UNCHANGED <<toolVars, _command_classes, commands, delay, it, results, returned, engine>>
    /\ UNCHANGED valueVars

\* commands.py:50, the call of pyaudacity.do in the second loop
RestExecute ==
    /\ pc = "slept"
    /\ Execute(commands[it + 1], "rest_call")

\* variant: the response is put in front of the collected ones
EngineRespondPrepend(r) ==
    /\ pc \in {"first_call", "rest_call"}
    /\ trace' = Append(trace, [e |-> "response", r |-> r])
    /\ engine' = Append(engine, trace[Len(trace)].line)
    /\ results' = <<r>> \o results
    /\ it' = it + 1
    /\ pc' = IF pc = "first_call" THEN "first" ELSE "rest"
    /\ UNCHANGED <<toolVars, _command_classes, commands, delay, returned>>
    /\ UNCHANGED valueVars

\* pyaudacity.do returns r and results.append stores it, commands.py:46 and 50
EngineRespond(r) ==
    /\ pc \in {"first_call", "rest_call"}
    /\ trace' = Append(trace, [e |-> "response", r |-> r])
    /\ engine' = Append(engine, trace[Len(trace)].line)
    /\ results' = Append(results, r)
    /\ it' = it + 1
    /\ pc' = IF pc = "first_call" THEN "first" ELSE "rest"
    /\ UNCHANGED <<toolVars, _command_classes, commands, delay, returned>>
    /\ UNCHANGED valueVars

\* variant: the failure is caught and the loop goes on with the next command
EngineRaiseSwallowed ==
    /\ pc \in {"first_call", "rest_call"}
    /\ trace' = Append(trace, [e |-> "raise"])
    /\ it' = it + 1
    /\ pc' = IF pc = "first_call" THEN "first" ELSE "rest"
    /\ UNCHANGED <<toolVars, _command_classes, commands, delay, results, returned, engine>>
    /\ UNCHANGED valueVars

\* pyaudacity.do raises: the exception leaves do(), commands.py:46 and 50
EngineRaise ==
    /\ pc \in {"first_call", "rest_call"}
    /\ trace' = Append(trace, [e |-> "raise"])
    /\ err' = "EngineError"
    /\ pc' = "raised"
    /\ UNCHANGED <<toolVars, _command_classes, command_class, kwargs, cmd, line>>
    /\ UNCHANGED <<commands, delay, it, results, returned, engine>>

\* commands.py:52, return results
Return ==
    /\ pc = "rest"
    /\ it >= Len(commands)
    /\ returned' = ListV(results)
    /\ pc' = "done"
    /\ UNCHANGED <<toolVars, _command_classes, commands, delay, it, results, trace, engine>>
    /\ UNCHANGED valueVars

\* a constructor call on a registered class with any keyword arguments
ConstructAny ==
    /\ pc = "idle"
    /\ command_class = NoCall
    /\ \E cls \in Range(_command_classes) :
         \E n \in 0..MaxBound :
           \E kw \in KwargsOfLen(cls, n) : Construct(cls, kw)

\* a call of do() with any commands
DoAny ==
    /\ pc = "idle"
    /\ err = "none"
    /\ \E cmds \in SeqsUpTo(SampleCommands \cup ({cmd} \ {NoValue}), MaxCommands) :
         \E d \in Delays : DoCall(cmds, d)

Next ==
    \/ ConstructAny
    \/ GetCommand
    \/ DoAny
    \/ FirstExecute
    \/ FirstExit
    \/ Sleep
    \/ RestExecute
    \/ \E r \in Responses : EngineRespond(r)
    \/ EngineRaise
    \/ Return

Spec == Init /\ [][Next]_vars

(***************************************************************************)
(* The run of do() as seen by the engine.                                  *)
(***************************************************************************)
IsExecute(ev) == ev.e = "execute"
IsResponse(ev) == ev.e = "response"
IsSleep(ev) == ev.e = "sleep"
IsRaise(ev) == ev.e = "raise"

Executes == SelectSeq(trace, IsExecute)
ResponsesSeen == SelectSeq(trace, IsResponse)
Sleeps == SelectSeq(trace, IsSleep)
Raises == SelectSeq(trace, IsRaise)

\* position in trace of the i-th issuance
ExecPos(i) ==
    CHOOSE p \in DOMAIN trace :
        /\ IsExecute(trace[p])
        /\ Cardinality({q \in 1..p : IsExecute(trace[q])}) = i

\* number of sleeps at the trace positions a..b
SleepsIn(a, b) == Cardinality({p \in a..b : p \in DOMAIN trace /\ IsSleep(trace[p])})

\* C1: when do() has returned from a run over n >= 1 commands in which the
\* engine never failed, the engine received exactly n execute calls, the
\* i-th carrying the serialized line of the i-th command, and the returned
\* list has n elements, the i-th being the engine's response to the i-th call.
C1_OrderedResults ==
    (pc = "done" /\ Len(commands) >= 1 /\ Raises = << >>) =>
        /\ Len(Executes) = Len(commands)
        /\ \A i \in DOMAIN commands : Executes[i].line = command(commands[i])
        /\ returned = ListV([i \in DOMAIN commands |-> ResponsesSeen[i].r])
        /\ Len(ResponsesSeen) = Len(commands)

\* three commands were run and the responses differ
C1_Witness ==
    /\ pc = "done"
    /\ Len(commands) = 3
    /\ commands[1] # commands[2]
    /\ returned.items[1] # returned.items[2]
    /\ returned.items[2] # returned.items[3]

\* C2: in a run over n >= 1 commands with a non-failing engine there is no
\* delay before the first issuance, exactly one delay between two successive
\* issuances, and, once do() has returned, n-1 delays in all and none after
\* the last issuance.
C2_DelaysBetween ==
    (Len(commands) >= 1 /\ Raises = << >>) =>
        /\ Len(Executes) >= 1 => SleepsIn(1, ExecPos(1)) = 0
        /\ Len(Executes) = 0 => Sleeps = << >>
        /\ \A i \in 1..(Len(Executes) - 1) : SleepsIn(ExecPos(i), ExecPos(i + 1)) = 1
        /\ pc = "done" =>
             /\ Len(Sleeps) = Len(commands) - 1
             /\ SleepsIn(ExecPos(Len(commands)), Len(trace)) = 0

\* a run over three commands has returned after two delays
C2_Witness ==
    /\ pc = "done"
    /\ Len(commands) = 3
    /\ Len(Sleeps) = 2

\* C3: at most one command is issued and not yet answered, and each command is
\* issued only when the responses to all commands before it are in results.
C3_OneInFlight ==
    LET inflight == Len(Executes) - Len(ResponsesSeen) - Len(Raises)
    IN /\ inflight \in {0, 1}
       /\ inflight = 1 <=> pc \in {"first_call", "rest_call"}
       /\ Len(results) = Len(ResponsesSeen)
       /\ \A i \in 1..Len(Executes) :
            Cardinality({q \in 1..ExecPos(i) : IsResponse(trace[q])}) = i - 1

\* the third command is in flight, two responses are in results
C3_Witness ==
    /\ pc = "rest_call"
    /\ Len(Executes) = 3
    /\ Len(results) = 2

\* C4: a failure of the engine on the k-th command is the last event of the
\* run: no execute call and no delay follows it, do() returns no list and
\* the caller gets the failure, and the engine keeps the k-1 lines it executed.
C4_FailFast ==
    /\ \A p \in DOMAIN trace : IsRaise(trace[p]) => p = Len(trace)
    /\ Raises # << >> =>
         /\ pc = "raised"
         /\ err = "EngineError"
         /\ returned = NoValue
         /\ Len(Executes) <= Len(commands)
         /\ Len(ResponsesSeen) = Len(Executes) - 1
         /\ Len(Sleeps) = Len(Executes) - 1
         /\ engine = [i \in 1..(Len(Executes) - 1) |-> command(commands[i])]

\* the engine failed on the second of three commands
C4_Witness ==
    /\ pc = "raised"
    /\ Len(commands) = 3
    /\ Len(Executes) = 2
    /\ Len(engine) = 1

(***************************************************************************)
(* The command string of a constructed command.                            *)
(***************************************************************************)
\* the line has a component field="..."
HasComponent(l, field) == \E p \in 1..(Len(l) - 1) : l[p] = field /\ l[p + 1] = "="

\* the line has the component field="text"
HasComponentWith(l, field, text) ==
    \E p \in 1..(Len(l) - 4) : SubSeq(l, p, p + 4) = <<field, "=", "\"", text, "\"">>

\* the text between the quotes of the component of field
ComponentText(l, field) ==
    l[(CHOOSE p \in 1..(Len(l) - 1) : l[p] = field /\ l[p + 1] = "=") + 3]

\* the protocol text of a value: 1/0 for a boolean, Python's str() otherwise
Rendered(v) == IF v.k = "bool" THEN (IF v.b THEN "1" ELSE "0") ELSE Str(v)

Unbound(inst) == FieldNames(inst.cls) \ inst.fields_set

C6_ZeroArguments ==
    (line # NoLine /\ model_fields(cmd.cls) = << >>) =>
        line.pieces = <<_scripting_command_name(cmd.cls), ":">>

\* the components the line must have from the i-th declared field on
RECURSIVE ExpectedComponents(_, _, _)
ExpectedComponents(inst, i, first) ==
    IF i > Len(model_fields(inst.cls)) THEN << >>
    ELSE IF inst.values[i] = None THEN ExpectedComponents(inst, i + 1, first)
    ELSE (IF first THEN << >> ELSE <<" ">>)
         \o <<model_fields(inst.cls)[i].name, "=", "\"", Rendered(inst.values[i]), "\"">>
         \o ExpectedComponents(inst, i + 1, FALSE)

\* position of the field name in the declaration of cls
DeclaredIndex(cls, name) ==
    CHOOSE i \in DOMAIN model_fields(cls) : model_fields(cls)[i].name = name

\* C7: the serialized line is the verb, a colon and a space, then one
\* name="value" component per field that has a value, in declared order
\* whatever the order the values were bound in, separated by one space.
C7_LineFormat ==
    line # NoLine =>
        line.pieces = <<_scripting_command_name(cmd.cls), ":", " ">>
                          \o ExpectedComponents(cmd, 1, TRUE)

\* two fields were bound in the reverse of their declared order
C7_Witness ==
    /\ line # NoLine
    /\ Len(kwargs) = 2
    /\ DeclaredIndex(cmd.cls, kwargs[1][1]) > DeclaredIndex(cmd.cls, kwargs[2][1])
    /\ kwargs[1][2] # None
    /\ kwargs[2][2] # None

BoolFields(cls) ==
    {model_fields(cls)[i].name :
        i \in {j \in DOMAIN model_fields(cls) : ConcreteType(model_fields(cls)[j].ann) = "Bool"}}

TextualBooleans == {"True", "False", "true", "false", "TRUE", "FALSE"}

\* C8: a boolean field bound to true is rendered name="1", bound to false
\* name="0", and no component of a boolean field, optional or not, has a
\* textual true/false between its quotes.
C8_BooleanLaw ==
    line # NoLine =>
        /\ \A i \in DOMAIN kwargs :
             (kwargs[i][1] \in BoolFields(cmd.cls) /\ kwargs[i][2].k = "bool") =>
                 HasComponentWith(line.pieces, kwargs[i][1],
                                  IF kwargs[i][2].b THEN "1" ELSE "0")
        /\ \A f \in BoolFields(cmd.cls) :
             HasComponent(line.pieces, f) =>
                 ComponentText(line.pieces, f) \notin TextualBooleans

\* the optional boolean field of SetLabel was bound to true
C8_Witness ==
    /\ line # NoLine
    /\ cmd.cls = "SetLabel"
    /\ \E i \in DOMAIN kwargs : kwargs[i] = <<"Selected", BoolV(TRUE)>>
    /\ HasComponentWith(line.pieces, "Selected", "1")

\* C9: the line starts with the class's own name, except for Open, which
\* overrides the scripting name: its line starts with OpenProject2 and its
\* display name remains Open.
C9_VerbOverride ==
    line # NoLine =>
        /\ line.pieces[1] = (IF cmd.cls = "Open" THEN "OpenProject2" ELSE cmd.cls)
        /\ user_name(cmd.cls) = cmd.cls

\* an Open command was serialized
C9_Witness ==
    /\ line # NoLine
    /\ cmd.cls = "Open"
    /\ line.pieces[1] = "OpenProject2"

\* the declared field of cls with this name
FieldOf(cls, name) == model_fields(cls)[DeclaredIndex(cls, name)]

Lower(name) ==
    CASE name = "Filename" -> "filename"
      [] name = "AddToHistory" -> "addtohistory"
      [] name = "Label" -> "label"
      [] name = "Text" -> "text"
      [] name = "Start" -> "start"
      [] name = "End" -> "end"
      [] name = "Selected" -> "selected"
      [] name = "StartFreq" -> "startfreq"
      [] name = "EndFreq" -> "endfreq"
      [] name = "StartAmp" -> "startamp"
      [] name = "EndAmp" -> "endamp"
      [] name = "Waveform" -> "waveform"
      [] name = "Interpolation" -> "interpolation"
      [] OTHER -> name

\* variant: the map is keyed by the field names as declared
NameMapUnlowered(cls) ==
    [key \in FieldNames(cls) |-> key]

\* cli.py:50, the dict comprehension over model_fields: a later field with
\* the same lower-cased name replaces an earlier one
NameMap(cls) ==
    LET fs == model_fields(cls)
        lowered == [i \in DOMAIN fs |-> Lower(fs[i].name)]
        keys == Range(lowered)
        last(key) == CHOOSE i \in DOMAIN fs :
                        /\ lowered[i] = key
                        /\ \A j \in DOMAIN fs : lowered[j] = key => j <= i
    IN [key \in keys |-> fs[last(key)].name]

\* cli.py:51, name_map[name] raises KeyError for some name of kwargs
RaisesKeyError(cls, kw) ==
    LET map == NameMap(cls)
    IN \E i \in DOMAIN kw : kw[i][1] \notin DOMAIN map

\* cli.py:51, the dict comprehension over kwargs
CommandKwargs(cls, kw) ==
    LET map == NameMap(cls)
    IN [i \in DOMAIN kw |-> <<map[kw[i][1]], kw[i][2]>>]

\* cli.py:33-54; NoValue when the call raises
construct_command_from_kwargs(cls, kw) ==
    IF RaisesKeyError(cls, kw) THEN NoValue
    ELSE Instantiate(cls, CommandKwargs(cls, kw))

\* keyword arguments as click passes them: lower-cased names, or a name no
\* field has
LowerNames(cls) == {Lower(f) : f \in FieldNames(cls)}

\* keyword argument lists of n such arguments, names distinct, any order
LowerKwargsOfLen(cls, n) ==
    {kw \in [1..n -> (LowerNames(cls) \cup {"bogus"}) \X InputValues] :
        \A i, j \in 1..n : kw[i][1] = kw[j][1] => i = j}

\* classes a caller hands to construct_command_from_kwargs
CallerClasses == Range(CatalogClasses) \cup {"CaseClash"}

\* a call of construct_command_from_kwargs(cls, kw)
ConstructFromKwargs(cls, kw) ==
    /\ cli_pc = "idle"
    /\ cli_pc' = "constructed"
    /\ command_class' = cls
    /\ kwargs' = kw
    /\ name_map' = [k |-> "dict", items |-> NameMap(cls)]
    /\ LET made == construct_command_from_kwargs(cls, kw)
       IN /\ cmd' = made
          /\ err' = IF RaisesKeyError(cls, kw) THEN "KeyError"
                    ELSE IF made = NoValue THEN "ValidationError" ELSE "none"
    /\ UNCHANGED <<_command_classes, line, field_info, click_type, cli_idx, cli_group>>
    /\ UNCHANGED <<doVars, extractVars, registryVars>>

ConstructFromKwargsAny ==
    /\ cli_pc = "idle"
    /\ \E cls \in CallerClasses :
         \E n \in 0..MaxBound :
           \E kw \in LowerKwargsOfLen(cls, n) : ConstructFromKwargs(cls, kw)

\* a pydantic FieldInfo, as far as cli.py reads it; annotation None is
\* FieldInfo(annotation=None)
FieldInfo(ann, default) == [annotation |-> ann, default |-> default]

\* pydantic's marker of a field without default
PydanticUndefined == [k |-> "PydanticUndefined"]

\* the exceptions of cli.py as results
AssertionError == [k |-> "AssertionError"]

\* variant: without the assertions, whatever is found is returned
field_info_to_click_type_unasserted(fi) ==
    LET ann == fi.annotation
    IN IF ann = None THEN None
       ELSE IF ann.union /\ ~ann.typing
       THEN LET idx == {i \in DOMAIN ann.args : ann.args[i] # "NoneType"}
            IN IF idx = {} THEN Plain("NoneType")
               ELSE Plain(ann.args[CHOOSE i \in idx : \A j \in idx : i <= j])
       ELSE ann

\* cli.py:16-30; a class is returned as Plain(its name), a typing.Union as
\* the annotation itself
field_info_to_click_type(fi) ==
    LET ann == fi.annotation
    IN IF ann = None THEN AssertionError
       ELSE IF ann.union /\ ~ann.typing
       THEN LET idx == {i \in DOMAIN ann.args : ann.args[i] # "NoneType"}
            IN IF idx = {} THEN AssertionError
               ELSE Plain(ann.args[CHOOSE i \in idx : \A j \in idx : i <= j])
       ELSE ann

\* the FieldInfo objects of the classes above
CatalogFieldInfos ==
    UNION { { FieldInfo(model_fields(cls)[i].ann, model_fields(cls)[i].default) :
                i \in DOMAIN model_fields(cls) } : cls \in Range(CatalogClasses) }

\* FieldInfo objects a caller builds by hand, as the tests do
HandMadeFieldInfos ==
    { FieldInfo(None, PydanticUndefined),
      FieldInfo(Plain("int"), PydanticUndefined),
      FieldInfo(Union(<<"str", "NoneType">>), PydanticUndefined),
      FieldInfo(Union(<<"NoneType", "str">>), PydanticUndefined),
      FieldInfo(Union(<<"NoneType", "int", "str">>), PydanticUndefined),
      FieldInfo(Union(<<"NoneType">>), PydanticUndefined) }

\* a call of field_info_to_click_type(fi)
ResolveFlagType(fi) ==
    /\ cli_pc = "idle"
    /\ cli_pc' = "resolved"
    /\ field_info' = fi
    /\ click_type' = field_info_to_click_type(fi)
    /\ err' = IF field_info_to_click_type(fi) = AssertionError
              THEN "AssertionError" ELSE "none"
    /\ UNCHANGED <<_command_classes, command_class, kwargs, cmd, line>>
    /\ UNCHANGED <<name_map, cli_idx, cli_group>>
    /\ UNCHANGED <<doVars, extractVars, registryVars>>

ResolveFlagTypeAny ==
    \E fi \in CatalogFieldInfos \cup HandMadeFieldInfos : ResolveFlagType(fi)

\* attribute lookup on a Command subclass: the class methods commands.py
\* defines; NoValue when the lookup raises AttributeError
GetAttr(cls, attr) ==
    CASE attr = "_scripting_command_name" -> _scripting_command_name(cls)
      [] attr = "user_name" -> user_name(cls)
      [] OTHER -> NoValue

\* pydantic FieldInfo.is_required()
is_required(f) == f.default = PydanticUndefined

\* cli.py:82-90: click.option(...)(cmd) appends one parameter to the command
\* per field, the fields taken last declared first
Options(cls) ==
    LET fs == model_fields(cls)
        n == Len(fs)
    IN [i \in DOMAIN fs |->
          LET f == fs[n + 1 - i]
          IN [flag |-> <<"--", f.name>>,
              type |-> field_info_to_click_type(FieldInfo(f.ann, f.default)),
              default |-> f.default,
              required |-> is_required(f)]]

\* cli.py:57-69, entry of build_cli: the group and the list of classes
BuildCli ==
    /\ cli_pc = "idle"
    /\ cli_pc' = "build"
    /\ cli_idx' = 1
    /\ cli_group' = << >>
    /\ UNCHANGED <<_command_classes, name_map, field_info, click_type>>
    /\ UNCHANGED valueVars
    /\ UNCHANGED <<doVars, extractVars, registryVars>>

\* cli.py:69-92, one turn of the loop over all_command_classes(), or the
\* return of the group when the loop is exhausted
BuildCliStep ==
    /\ cli_pc = "build"
    /\ IF cli_idx > Len(_command_classes)
       THEN /\ cli_pc' = "built"
            /\ UNCHANGED <<cli_idx, cli_group, err>>
       ELSE LET cls == _command_classes[cli_idx]
                name == GetAttr(cls, "_command_name")
            IN IF name = NoValue
               THEN /\ err' = "AttributeError"
                    /\ cli_pc' = "build_raised"
                    /\ UNCHANGED <<cli_idx, cli_group>>
               ELSE /\ cli_group' = Append(cli_group,
                                           [name |-> name, cls |-> cls,
                                            params |-> Options(cls)])
                    /\ cli_idx' = cli_idx + 1
                    /\ UNCHANGED <<cli_pc, err>>
    /\ UNCHANGED <<_command_classes, command_class, kwargs, cmd, line>>
    /\ UNCHANGED <<name_map, field_info, click_type>>
    /\ UNCHANGED <<doVars, extractVars, registryVars>>

NextCli ==
    \/ ConstructFromKwargsAny
    \/ ResolveFlagTypeAny
    \/ BuildCli
    \/ BuildCliStep

SpecCli == Init /\ [][NextCli]_vars

(***************************************************************************)
(* Claims on cli.py.                                                       *)
(***************************************************************************)
\* no two fields of cls have the same lower-cased name
NoCaseClash(cls) ==
    \A f, g \in FieldNames(cls) : Lower(f) = Lower(g) => f = g

\* the field of cls whose lower-cased name is lname
TrueName(cls, lname) == CHOOSE f \in FieldNames(cls) : Lower(f) = lname

C12_CaseClashRejected ==
    (cli_pc = "constructed" /\ ~NoCaseClash(command_class)) =>
        /\ name_map = NoValue
        /\ cmd = NoValue
        /\ err # "none"

\* the annotation is a class T, or a union of a class T and NoneType
IsClassOrOptional(ann) ==
    /\ ann # None
    /\ IF ann.union
       THEN /\ Len(ann.args) = 2
            /\ "NoneType" \in Range(ann.args)
            /\ \E i \in DOMAIN ann.args : ann.args[i] # "NoneType"
       ELSE ann.args[1] # "NoneType"

\* C13: for an annotation that is a class T the resolved flag type is T, and
\* for a union of a class T and NoneType, in either order, it is T as well:
\* never NoneType and never the union.
C13_FlagTypeResolution ==
    (cli_pc = "resolved" /\ IsClassOrOptional(field_info.annotation)) =>
        click_type = Plain(ConcreteType(field_info.annotation))

\* C14: field_info_to_click_type fails with an AssertionError and returns no
\* type when the annotation is None or is a union whose members are all
\* NoneType.
C14_FlagTypeAssertion ==
    (cli_pc = "resolved"
       /\ \/ field_info.annotation = None
          \/ /\ field_info.annotation.union
             /\ \A i \in DOMAIN field_info.annotation.args :
                   field_info.annotation.args[i] = "NoneType") =>
        /\ click_type = AssertionError
        /\ err = "AssertionError"

\* FieldInfo(annotation=None) was resolved, as in the repository's test
C14_Witness ==
    /\ cli_pc = "resolved"
    /\ field_info.annotation = None
    /\ err = "AssertionError"

\* the flag the claim expects for the field f
ExpectedFlag(f) ==
    [flag |-> <<"--", f.name>>, default |-> f.default, required |-> is_required(f)]

\* what a built parameter says about its flag
FlagOf(param) ==
    [flag |-> param.flag, default |-> param.default, required |-> param.required]

BuildEnded == cli_pc \in {"built", "build_raised"}

\* C15: when build_cli has ended, every registered class has a sub-command
\* with exactly one flag per field, named --<field>, with the declared
\* default, required iff the field has no default, in declared field order.
C15_OneFlagPerField ==
    BuildEnded =>
        /\ Len(cli_group) = Len(_command_classes)
        /\ \A i \in DOMAIN cli_group :
             LET fs == model_fields(_command_classes[i])
             IN /\ Len(cli_group[i].params) = Len(fs)
                /\ \A j \in DOMAIN fs : FlagOf(cli_group[i].params[j]) = ExpectedFlag(fs[j])

\* C16: build_cli never ends in an exception, and the group it returns has
\* one sub-command per registered class, named by the class's name.
C16_BuildCompletes ==
    /\ cli_pc # "build_raised"
    /\ cli_pc = "built" =>
         /\ Len(cli_group) = Len(_command_classes)
         /\ \A i \in DOMAIN cli_group :
              /\ cli_group[i].cls = _command_classes[i]
              /\ cli_group[i].name \in {user_name(_command_classes[i]),
                                        _scripting_command_name(_command_classes[i])}

(***************************************************************************)
(* cheek.extract: compiling the scripting reference into Python source.    *)
(* A text is a sequence of one-character strings.                          *)
(***************************************************************************)
\* bs4: find() found no such tag
NoTag == [k |-> "NoTag"]

\* an exception leaving a function of cheek.extract
Raise(e) == [k |-> "Raise", err |-> e]

Raised(x) == x.k = "Raise"

\* a str value
Text(s) == [k |-> "text", s |-> s]

\* a <b> element and its text
B(text) == [k |-> "b", text |-> text]

\* a <ul> element and the texts of its <li> elements
Ul(li) == [k |-> "ul", li |-> li]

\* str.strip(): the characters Python strips that the samples use
Whitespace == {" ", "\n", "\t"}

RECURSIVE LStrip(_)
LStrip(s) ==
    IF s # << >> /\ Head(s) \in Whitespace THEN LStrip(Tail(s)) ELSE s

RECURSIVE RStrip(_)
RStrip(s) ==
    IF s # << >> /\ s[Len(s)] \in Whitespace
    THEN RStrip(SubSeq(s, 1, Len(s) - 1))
    ELSE s

\* arg.py:16, command.py:29: str.strip
Strip(s) == RStrip(LStrip(s))

RECURSIVE Flatten(_)
\* the members of a sequence of sequences, in order
Flatten(ss) == IF ss = << >> THEN << >> ELSE Head(ss) \o Flatten(Tail(ss))

\* bs4: Tag.text, the strings of the element joined
TextOf(strings) == Flatten(strings)

\* an <i> element of the argument cell: its strings, and the <ul> that
\* follows it inside the cell (NoTag without one)
I(strings, ul) == [strings |-> strings, ul |-> ul]

\* a <tr> element: the number of its <td> cells, the <b> of the first cell
\* (NoTag without one), the <i> elements of the third cell and the text of
\* the fourth cell
Tr(cells, b, items, doc) == [cells |-> cells, b |-> b, items |-> items, doc |-> doc]

\* arg.py:30-31, the pattern , \(default:(.*)\) applied with match()
DefaultPrefix == <<",", " ", "(", "d", "e", "f", "a", "u", "l", "t", ":">>

\* arg.py:32, regex.match(default_str): the text of group 1, or None
RegexMatch(s) ==
    LET n == Len(DefaultPrefix)
        closers == {j \in (n + 1)..Len(s) :
                      /\ s[j] = ")"
                      /\ \A i \in (n + 1)..(j - 1) : s[i] # "\n"}
    IN IF Len(s) < n \/ SubSeq(s, 1, n) # DefaultPrefix \/ closers = {}
       THEN None
       ELSE [k |-> "Match",
             group1 |-> SubSeq(s, n + 1,
                               (CHOOSE j \in closers : \A i \in closers : i <= j) - 1)]

\* arg.py:28-36; None is Python's None
_default_value(default_str) ==
    LET match == RegexMatch(default_str)
    IN IF match = None THEN Raise("TypeError")
       ELSE IF match.group1 = <<"u", "n", "c", "h", "a", "n", "g", "e", "d">> THEN None
       ELSE Text(match.group1)

\* the <ul> elements that follow the given <i> elements, in document order
ListsOfItems(items) ==
    Flatten([i \in DOMAIN items |->
                IF items[i].ul = NoTag THEN << >> ELSE <<items[i].ul>>])

\* the lists of a sequence of rows, in document order
ListsOfRows(rows) == Flatten([r \in DOMAIN rows |-> ListsOfItems(rows[r].items)])

\* bs4 find_next("ul") from the a-th <i> of row r of table t: every <ul>
\* that comes later in the document, in document order
ListsAfter(doc, t, r, a) ==
    LET row == doc[t][r]
    IN ListsOfItems(SubSeq(row.items, a, Len(row.items)))
       \o ListsOfRows(SubSeq(doc[t], r + 1, Len(doc[t])))
       \o Flatten([u \in 1..(Len(doc) - t) |-> ListsOfRows(doc[t + u])])

\* arg.py:39-46
_find_enum_values(doc, t, r, a) ==
    LET found == ListsAfter(doc, t, r, a)
    IN IF found = << >> THEN << >>
       ELSE [i \in DOMAIN found[1].li |-> Strip(found[1].li[i])]

\* arg.py:7-12
Arg(name, type, default, enum_values) ==
    [k |-> "Arg", name |-> name, type |-> type, default |-> default,
     enum_values |-> enum_values]

\* arg.py:14-26, Arg.from_html on the a-th <i> of row r of table t
Arg_from_html(doc, t, r, a) ==
    LET html == doc[t][r].items[a]
    IN IF Len(html.strings) # 3 THEN Raise("ValueError")
       ELSE LET type_str == Strip(html.strings[1])
                name_str == Strip(html.strings[2])
                default_str == Strip(html.strings[3])
                enum_values == IF type_str = <<"e", "n", "u", "m">>
                               THEN _find_enum_values(doc, t, r, a)
                               ELSE << >>
                default_value == _default_value(default_str)
            IN IF Raised(default_value) THEN default_value
               ELSE Arg(Strip(name_str), type_str, default_value, enum_values)

\* command.py:27, the <i> elements whose text is not "none"
ArgElements(row) == {a \in DOMAIN row.items : TextOf(row.items[a].strings) # <<"n", "o", "n", "e">>}

\* command.py:27, the list comprehension: the Args in order, or the first
\* exception
ArgsOf(doc, t, r) ==
    LET row == doc[t][r]
        kept == ArgElements(row)
        RECURSIVE from(_)
        from(a) ==
            IF a > Len(row.items) THEN << >>
            ELSE IF a \notin kept THEN from(a + 1)
            ELSE LET arg == Arg_from_html(doc, t, r, a)
                 IN IF Raised(arg) THEN <<arg>> ELSE <<arg>> \o from(a + 1)
    IN from(1)

\* command.py:18-22
CommandDescriptor(name, args, doc) ==
    [k |-> "Command", name |-> name, args |-> args, doc |-> doc]

\* variant: a missing cell or bold fragment is taken as empty text
Command_from_html_lenient(doc, t, r) ==
    LET html == doc[t][r]
        args == ArgsOf(doc, t, r)
    IN IF args # << >> /\ Raised(args[Len(args)]) THEN args[Len(args)]
       ELSE CommandDescriptor(IF html.b = NoTag THEN << >>
                              ELSE SubSeq(html.b.text, 1, Len(html.b.text) - 1),
                              args, Strip(html.doc))

\* command.py:24-29, Command.from_html on row r of table t
Command_from_html(doc, t, r) ==
    LET html == doc[t][r]
        args == ArgsOf(doc, t, r)
    IN IF html.cells < 1 THEN Raise("IndexError")
       ELSE IF html.b = NoTag THEN Raise("AttributeError")
       ELSE IF html.cells < 3 THEN Raise("IndexError")
       ELSE IF args # << >> /\ Raised(args[Len(args)]) THEN args[Len(args)]
       ELSE IF html.cells < 4 THEN Raise("IndexError")
       ELSE CommandDescriptor(SubSeq(html.b.text, 1, Len(html.b.text) - 1), args,
                              Strip(html.doc))

\* __main__.py:67-76, str.replace of one character by an underscore
Replace(name, old) == [i \in DOMAIN name |-> IF name[i] = old THEN "_" ELSE name[i]]

\* variant: a hyphen is left as it is
_valid_python_name_hyphen(name) ==
    LET renamed == IF name = <<"N", "o", "n", "e">> THEN <<"N", "o", "n", "e", "_">> ELSE name
    IN Replace(Replace(Replace(Replace(renamed, ","), " "), "("), ")")

\* __main__.py:67-76
_valid_python_name(name) ==
    LET renamed == IF name = <<"N", "o", "n", "e">> THEN <<"N", "o", "n", "e", "_">> ELSE name
    IN Replace(Replace(Replace(Replace(Replace(renamed, ","), " "), "-"), "("), ")")

\* __main__.py:63-64
_python_enum_name(command_name, arg_name) ==
    _valid_python_name(command_name) \o _valid_python_name(arg_name)

\* __main__.py:79-96; the f-string of the last case names type_str, which
\* is not defined there
_python_type(command_name, arg) ==
    IF arg.type \in {<<"s", "i", "z", "e", "_", "t">>, <<"i", "n", "t">>} THEN Text(<<"i", "n", "t">>)
    ELSE IF arg.type = <<"s", "t", "r", "i", "n", "g">> THEN Text(<<"s", "t", "r">>)
    ELSE IF arg.type \in {<<"d", "o", "u", "b", "l", "e">>, <<"f", "l", "o", "a", "t">>} THEN Text(<<"f", "l", "o", "a", "t">>)
    ELSE IF arg.type = <<"b", "o", "o", "l">> THEN Text(<<"b", "o", "o", "l">>)
    ELSE IF arg.type = <<"e", "n", "u", "m">> THEN Text(_python_enum_name(command_name, arg.name))
    ELSE Raise("NameError")

\* __main__.py:44-53, as the f-string of _arg_to_python renders it
_default_to_python(command_name, arg) ==
    IF arg.default = None THEN <<"N", "o", "n", "e">>
    ELSE IF arg.type = <<"s", "t", "r", "i", "n", "g">>
    THEN IF arg.default.s = << >> THEN <<"'", "'">>
         ELSE <<"\"">> \o arg.default.s \o <<"\"">>
    ELSE IF arg.type = <<"e", "n", "u", "m">>
    THEN _python_enum_name(command_name, arg.name) \o <<".">>
             \o _valid_python_name(arg.default.s)
    ELSE arg.default.s

\* __main__.py:40-41, the one line of the field, or the exception
_arg_to_python(command_name, arg) ==
    LET type == _python_type(command_name, arg)
    IN IF Raised(type) THEN type
       ELSE Text(<<" ", " ", " ", " ">> \o _valid_python_name(arg.name) \o <<":", " ">> \o type.s
                     \o <<" ", "=", " ">> \o _default_to_python(command_name, arg))

\* __main__.py:56-60, the lines of the enum class of an argument
_enum_to_python(command_name, arg) ==
    <<<<"c", "l", "a", "s", "s", " ">> \o _python_enum_name(command_name, arg.name) \o <<"(", "E", "n", "u", "m", ")", ":">>>>
    \o [i \in DOMAIN arg.enum_values |->
          <<" ", " ", " ", " ">> \o _valid_python_name(arg.enum_values[i]) \o <<" ", "=", " ", "'">>
              \o arg.enum_values[i] \o <<"'">>]

\* __main__.py:27-37, the lines the generator yields, or the exception that
\* ends it
_command_to_python(cmnd) ==
    LET enums == Flatten([i \in DOMAIN cmnd.args |->
                            IF cmnd.args[i].enum_values # << >>
                            THEN _enum_to_python(cmnd.name, cmnd.args[i])
                            ELSE << >>])
        fields == [i \in DOMAIN cmnd.args |-> _arg_to_python(cmnd.name, cmnd.args[i])]
        head == <<<<"c", "l", "a", "s", "s", " ">> \o _valid_python_name(cmnd.name) \o <<":">>>>
    IN IF \E i \in DOMAIN fields : Raised(fields[i])
       THEN fields[CHOOSE i \in DOMAIN fields : Raised(fields[i])]
       ELSE IF cmnd.args = << >> THEN Text(enums \o head \o <<<<" ", " ", " ", " ", "p", "a", "s", "s">>>>)
       ELSE Text(enums \o head \o [i \in DOMAIN fields |-> fields[i].s])

(***************************************************************************)
(* The documents the extractor is run on.                                  *)
(***************************************************************************)
\* most data rows in a document, most data tables in a document
MaxRows == 2
MaxTables == 2

\* a header row: its cells are <th>, not <td>
HeaderRow == Tr(0, NoTag, << >>, << >>)

\* the first table of the reference is not a table of commands
FirstTable == <<HeaderRow, Tr(2, NoTag, << >>, << >>)>>

\* a row whose first n cells are there
ShortRow(n) ==
    Tr(n, IF n >= 1 THEN B(<<"C", "u", "t", ":">>) ELSE NoTag,
       IF n >= 3 THEN <<I(<<<<"i", "n", "t", " ">>, <<"N">>, <<",", " ", "(", "d", "e", "f", "a", "u", "l", "t", ":", "0", ")">>>>, NoTag)>> ELSE << >>,
       << >>)

SampleRows ==
    { Tr(4, B(<<"N", "e", "w", ":">>), <<I(<<<<"n", "o", "n", "e">>>>, NoTag)>>, <<" ", "d", "\n">>),
      Tr(4, B(<<"S", "e", "t", ":">>), <<I(<<<<"i", "n", "t", " ">>, <<"N">>, <<",", " ", "(", "d", "e", "f", "a", "u", "l", "t", ":", "0", ")">>>>, NoTag),
                        I(<<<<"s", "t", "r", "i", "n", "g", " ">>, <<"S">>, <<",", " ", "(", "d", "e", "f", "a", "u", "l", "t", ":", "u", "n", "c", "h", "a", "n", "g", "e", "d", ")">>>>, NoTag)>>, <<"d">>),
      Tr(4, B(<<"P", "i", "c", "k", ":">>), <<I(<<<<"e", "n", "u", "m", " ">>, <<"K">>, <<",", " ", "(", "d", "e", "f", "a", "u", "l", "t", ":", "A", ")">>>>, Ul(<<<<"A">>, <<" ", "B", " ">>>>))>>, <<"d">>),
      Tr(4, B(<<"O", "d", "d", ":">>), <<I(<<<<"e", "n", "u", "m", " ">>, <<"M">>, <<",", " ", "(", "d", "e", "f", "a", "u", "l", "t", ":", "Z", ")">>>>, NoTag)>>, <<"d">>),
      Tr(4, B(<<"B", "a", "d", ":">>), <<I(<<<<"i", "n", "t", " ">>, <<"N">>>>, NoTag)>>, <<"d">>),
      Tr(4, B(<<"R", "a", "w", ":">>), <<I(<<<<"f", "i", "l", "e", " ">>, <<"F">>, <<",", " ", "(", "d", "e", "f", "a", "u", "l", "t", ":", "x", ")">>>>, NoTag)>>, <<"d">>),
      Tr(4, NoTag, << >>, <<"d">>),
      Tr(4, B(<<"G", "o">>), <<I(<<<<"n", "o", "n", "e">>>>, NoTag)>>, <<"d">>),
      Tr(4, B(<<"a", "-", "b", " ", "(", "c", ")", ":">>),
         <<I(<<<<"s", "t", "r", "i", "n", "g", " ">>, <<"T">>, <<",", " ", "(", "d", "e", "f", "a", "u", "l", "t", ":", "h", "i", ")">>>>, NoTag),
           I(<<<<"s", "t", "r", "i", "n", "g", " ">>, <<"E">>, <<",", " ", "(", "d", "e", "f", "a", "u", "l", "t", ":", ")">>>>, NoTag),
           I(<<<<"e", "n", "u", "m", " ">>, <<"x", ",", "y">>, <<",", " ", "(", "d", "e", "f", "a", "u", "l", "t", ":", "N", "o", "n", "e", ")">>>>,
             Ul(<<<<"a", " ", "b">>, <<"a", "-", "b">>, <<"N", "o", "n", "e">>>>))>>, <<"d">>) }
    \cup {ShortRow(n) : n \in 0..3}

RECURSIVE RowsOfLen(_)
\* the sequences of n sample rows
RowsOfLen(n) ==
    IF n = 0 THEN {<< >>}
    ELSE {Append(rows, row) : rows \in RowsOfLen(n - 1), row \in SampleRows}

RECURSIVE TablesWith(_, _)
\* the sequences of at most t data tables with at most r data rows in all
TablesWith(t, r) ==
    IF t = 0 THEN {<< >>}
    ELSE TablesWith(t - 1, r) \cup
         UNION { { <<(<<HeaderRow>> \o rows)>> \o rest :
                     rows \in RowsOfLen(n),
                     rest \in {x \in TablesWith(t - 1, r - n) : Len(x) = t - 1} } :
                 n \in 0..r }

Documents(t, r) == {<<FirstTable>> \o tables : tables \in TablesWith(t, r)}

\* __main__.py:22-23, the rows the two loops visit, as <<table, row>>
RowPositions(doc) ==
    Flatten([u \in 1..(Len(doc) - 1) |->
               [v \in 1..(Len(doc[u + 1]) - 1) |-> <<u + 1, v + 1>>]])

Header == <<"f", "r", "o", "m", " ", "e", "n", "u", "m", " ", "i", "m", "p", "o", "r", "t", " ", "E", "n", "u", "m">>

(***************************************************************************)
(* python -m cheek.extract <file>                                          *)
(***************************************************************************)
\* __main__.py:11, main() starts to drain parse_commands into a tuple
Main(doc) ==
    /\ main_pc = "idle"
    /\ soup' = doc
    /\ main_pc' = "parsing"
    /\ row_idx' = 1
    /\ UNCHANGED <<yielded, main_commands, emit_idx, stdout, main_err>>
    /\ UNCHANGED <<_command_classes, valueVars, doVars, cliVars, registryVars>>

MainAny ==
    /\ main_pc = "idle"
    /\ \E doc \in Documents(MaxTables, MaxRows) : Main(doc)

\* variant: a row that fails to compile is passed over
ParseRowSkipping ==
    /\ main_pc = "parsing"
    /\ row_idx <= Len(RowPositions(soup))
    /\ LET at == RowPositions(soup)[row_idx]
           row == Command_from_html(soup, at[1], at[2])
       IN /\ yielded' = IF Raised(row) THEN yielded ELSE Append(yielded, row)
          /\ row_idx' = row_idx + 1
          /\ UNCHANGED <<main_pc, main_err>>
    /\ UNCHANGED <<soup, main_commands, emit_idx, stdout>>
    /\ UNCHANGED <<_command_classes, valueVars, doVars, cliVars, registryVars>>

\* __main__.py:22-24, the generator compiles the next row; an exception
\* leaves parse_commands, tuple() and main()
ParseRow ==
    /\ main_pc = "parsing"
    /\ row_idx <= Len(RowPositions(soup))
    /\ LET at == RowPositions(soup)[row_idx]
           row == Command_from_html(soup, at[1], at[2])
       IN IF Raised(row)
          THEN /\ main_pc' = "raised"
               /\ main_err' = row.err
               /\ UNCHANGED <<yielded, row_idx>>
          ELSE /\ yielded' = Append(yielded, row)
               /\ row_idx' = row_idx + 1
               /\ UNCHANGED <<main_pc, main_err>>
    /\ UNCHANGED <<soup, main_commands, emit_idx, stdout>>
    /\ UNCHANGED <<_command_classes, valueVars, doVars, cliVars, registryVars>>

\* __main__.py:11, the generator is exhausted and the tuple is bound
ParseDone ==
    /\ main_pc = "parsing"
    /\ row_idx > Len(RowPositions(soup))
    /\ main_commands' = [k |-> "tuple", items |-> yielded]
    /\ main_pc' = "parsed"
    /\ UNCHANGED <<soup, row_idx, yielded, emit_idx, stdout, main_err>>
    /\ UNCHANGED <<_command_classes, valueVars, doVars, cliVars, registryVars>>

\* __main__.py:13
PrintHeader ==
    /\ main_pc = "parsed"
    /\ stdout' = Append(stdout, Header)
    /\ emit_idx' = 1
    /\ main_pc' = "emitting"
    /\ UNCHANGED <<soup, row_idx, yielded, main_commands, main_err>>
    /\ UNCHANGED <<_command_classes, valueVars, doVars, cliVars, registryVars>>

\* variant: the commands are emitted last to first
EmitCommandBackwards ==
    /\ main_pc = "emitting"
    /\ emit_idx <= Len(main_commands.items)
    /\ LET command_lines ==
               _command_to_python(
                   main_commands.items[Len(main_commands.items) + 1 - emit_idx])
       IN IF Raised(command_lines)
          THEN /\ main_pc' = "raised"
               /\ main_err' = command_lines.err
               /\ UNCHANGED <<stdout, emit_idx>>
          ELSE /\ stdout' = Append(stdout, Join(command_lines.s, <<"\n">>))
               /\ emit_idx' = emit_idx + 1
               /\ UNCHANGED <<main_pc, main_err>>
    /\ UNCHANGED <<soup, row_idx, yielded, main_commands>>
    /\ UNCHANGED <<_command_classes, valueVars, doVars, cliVars, registryVars>>

\* __main__.py:15-17, one turn of the loop: the lines of a command are
\* joined and printed, or the generator raises and nothing is printed
EmitCommand ==
    /\ main_pc = "emitting"
    /\ emit_idx <= Len(main_commands.items)
    /\ LET command_lines == _command_to_python(main_commands.items[emit_idx])
       IN IF Raised(command_lines)
          THEN /\ main_pc' = "raised"
               /\ main_err' = command_lines.err
               /\ UNCHANGED <<stdout, emit_idx>>
          ELSE /\ stdout' = Append(stdout, Join(command_lines.s, <<"\n">>))
               /\ emit_idx' = emit_idx + 1
               /\ UNCHANGED <<main_pc, main_err>>
    /\ UNCHANGED <<soup, row_idx, yielded, main_commands>>
    /\ UNCHANGED <<_command_classes, valueVars, doVars, cliVars, registryVars>>

\* __main__.py:15, the loop is over and main() returns
EmitDone ==
    /\ main_pc = "emitting"
    /\ emit_idx > Len(main_commands.items)
    /\ main_pc' = "done"
    /\ UNCHANGED <<soup, row_idx, yielded, main_commands, emit_idx, stdout, main_err>>
    /\ UNCHANGED <<_command_classes, valueVars, doVars, cliVars, registryVars>>

NextExtract ==
    \/ MainAny
    \/ ParseRow
    \/ ParseDone
    \/ PrintHeader
    \/ EmitCommand
    \/ EmitDone

SpecExtract == Init /\ [][NextExtract]_vars

(***************************************************************************)
(* Claims on cheek.extract.                                                *)
(***************************************************************************)
\* the i-th row that parse_commands visits
RowAt(i) == soup[RowPositions(soup)[i][1]][RowPositions(soup)[i][2]]

\* what compiling the i-th visited row gives
Compiled(i) == Command_from_html(soup, RowPositions(soup)[i][1], RowPositions(soup)[i][2])

\* some row of the document fails to compile
SomeRowFails == \E i \in DOMAIN RowPositions(soup) : Raised(Compiled(i))

\* C17: when some row of the document fails to compile, main() never binds
\* its tuple of commands, so nothing is handed to the emitter, it prints
\* nothing, not even the enum import line, and it never gets past parsing.
C17_NoPartialSchema ==
    (soup # << >> /\ SomeRowFails) =>
        /\ main_commands = NoValue
        /\ stdout = << >>
        /\ main_pc \in {"parsing", "raised"}

\* a row failed after an earlier row had compiled
C17_Witness ==
    /\ main_pc = "raised"
    /\ Len(yielded) >= 1
    /\ Raised(Compiled(row_idx))
    /\ stdout = << >>

\* the a-th <i> of the row declares an enum and no <ul> follows it in the
\* document
ListlessEnum(t, r, a) ==
    /\ Len(soup[t][r].items[a].strings) = 3
    /\ Strip(soup[t][r].items[a].strings[1]) = <<"e", "n", "u", "m">>
    /\ ListsAfter(soup, t, r, a) = << >>

\* C18: no command is compiled from a row with an enum argument that no
\* list follows: compiling such a row fails.
C18_EnumWithoutListFails ==
    \A i \in DOMAIN yielded :
        LET at == RowPositions(soup)[i]
        IN \A a \in ArgElements(RowAt(i)) : ~ListlessEnum(at[1], at[2], a)

\* C19: every compiled argument of type enum has at least one enumeration
\* value and a default, if any, among them; every compiled argument of
\* another type has no enumeration values.
C19_EnumValues ==
    \A i \in DOMAIN yielded :
        \A a \in DOMAIN yielded[i].args :
            LET arg == yielded[i].args[a]
            IN IF arg.type = <<"e", "n", "u", "m">>
               THEN /\ arg.enum_values # << >>
                    /\ arg.default # None => arg.default.s \in Range(arg.enum_values)
               ELSE arg.enum_values = << >>

\* the row has fewer than four cells, or no <b> in its first cell
Malformed(row) == row.cells < 4 \/ row.b = NoTag

\* C20: compiling a row with fewer than four cells, or without a bold
\* fragment in its first cell, raises, and parse_commands yields no command
\* for that row.
C20_MalformedRow ==
    soup # << >> =>
        \A i \in DOMAIN RowPositions(soup) :
            Malformed(RowAt(i)) => /\ Raised(Compiled(i))
                                   /\ Len(yielded) < i

\* main() was left at a row of four cells without a bold fragment
C20_Witness ==
    /\ main_pc = "raised"
    /\ RowAt(row_idx).cells = 4
    /\ RowAt(row_idx).b = NoTag
    /\ main_err = "AttributeError"

\* the characters taken as punctuation at the end of a name
Punctuation == {":", ".", ",", ";", "!", "?"}

\* C21: the name of every compiled command is the text of the <b> of its
\* row without its trailing punctuation character, and the whole text when
\* that text does not end in punctuation.
C21_NameStripsPunctuation ==
    \A i \in DOMAIN yielded :
        LET text == RowAt(i).b.text
        IN yielded[i].name =
              IF text # << >> /\ text[Len(text)] \in Punctuation
              THEN SubSeq(text, 1, Len(text) - 1)
              ELSE text

RECURSIVE Split(_)
\* the lines of a printed text
Split(text) ==
    LET breaks == {i \in DOMAIN text : text[i] = "\n"}
    IN IF breaks = {} THEN <<text>>
       ELSE LET first == CHOOSE i \in breaks : \A j \in breaks : i <= j
            IN <<SubSeq(text, 1, first - 1)>> \o Split(SubSeq(text, first + 1, Len(text)))

\* the text starts with the prefix
StartsWith(text, prefix) ==
    Len(text) >= Len(prefix) /\ SubSeq(text, 1, Len(prefix)) = prefix

\* the text ends with the suffix
EndsWith(text, suffix) ==
    /\ Len(text) >= Len(suffix)
    /\ SubSeq(text, Len(text) - Len(suffix) + 1, Len(text)) = suffix

\* how many lines the enum types of a command take: a class line and a
\* line per value for every argument that has values
EnumLines(cmnd) ==
    Len(Flatten([a \in DOMAIN cmnd.args |->
                   IF cmnd.args[a].enum_values = << >> THEN << >>
                   ELSE << << >> >> \o cmnd.args[a].enum_values]))

\* the lines of a command have its enum types first, then its class line,
\* then the body of the class
EnumsFirst(cmnd, lines) ==
    LET n == EnumLines(cmnd)
    IN /\ Len(lines) > n + 1
       /\ lines[n + 1] = <<"c", "l", "a", "s", "s", " ">> \o _valid_python_name(cmnd.name) \o <<":">>
       /\ \A l \in 1..n : \/ EndsWith(lines[l], <<"(", "E", "n", "u", "m", ")", ":">>)
                          \/ StartsWith(lines[l], <<" ", " ", " ", " ">>)
       /\ n > 0 => EndsWith(lines[1], <<"(", "E", "n", "u", "m", ")", ":">>)
       /\ \A l \in (n + 2)..Len(lines) : StartsWith(lines[l], <<" ", " ", " ", " ">>)

\* the commands whose text main() has printed
Printed == 1..(Len(stdout) - 1)

Replaced == {",", "-", "(", ")", " "}

\* the identifier the claim gives for a name
Sanitized(name) ==
    IF name = <<"N", "o", "n", "e">> THEN <<"N", "o", "n", "e", "_">>
    ELSE [i \in DOMAIN name |-> IF name[i] \in Replaced THEN "_" ELSE name[i]]

\* C23: in every printed text the class is named by the sanitized command
\* name, every field by the sanitized argument name and every enum member
\* by the sanitized enumeration value, where sanitizing turns each comma,
\* hyphen, parenthesis and space into an underscore, None into None_, and
\* leaves every other character.
C23_Sanitization ==
    \A i \in Printed :
        LET cmnd == main_commands.items[i]
            lines == Split(stdout[i + 1])
        IN /\ (<<"c", "l", "a", "s", "s", " ">> \o Sanitized(cmnd.name) \o <<":">>) \in Range(lines)
           /\ \A a \in DOMAIN cmnd.args :
                 /\ \E l \in DOMAIN lines :
                       StartsWith(lines[l], <<" ", " ", " ", " ">> \o Sanitized(cmnd.args[a].name) \o <<":", " ">>)
                 /\ \A v \in DOMAIN cmnd.args[a].enum_values :
                       (<<" ", " ", " ", " ">> \o Sanitized(cmnd.args[a].enum_values[v]) \o <<" ", "=", " ", "'">>
                          \o cmnd.args[a].enum_values[v] \o <<"'">>) \in Range(lines)

\* a command whose names hold a hyphen, a space, parentheses and a comma,
\* with the enumeration value None, was printed
C23_Witness ==
    /\ main_pc = "done"
    /\ \E i \in Printed :
          /\ main_commands.items[i].name = <<"a", "-", "b", " ", "(", "c", ")">>
          /\ \E a \in DOMAIN main_commands.items[i].args :
                /\ main_commands.items[i].args[a].name = <<"x", ",", "y">>
                /\ <<"N", "o", "n", "e">> \in Range(main_commands.items[i].args[a].enum_values)

\* C24: no printed enum type has two distinct enumeration values under the
\* same member identifier: an argument whose values collide after
\* sanitization is not emitted.
C24_DistinctMembers ==
    \A i \in Printed :
        \A a \in DOMAIN main_commands.items[i].args :
            LET values == main_commands.items[i].args[a].enum_values
            IN \A v, w \in DOMAIN values :
                  values[v] # values[w] =>
                      _valid_python_name(values[v]) # _valid_python_name(values[w])

\* the ways to write "T or nothing" as an annotation
OptionalForms(type) == {type \o <<" ", "|", " ", "N", "o", "n", "e">>, <<"O", "p", "t", "i", "o", "n", "a", "l", "[">> \o type \o <<"]">>}

\* the field lines the claim allows for an argument
AllowedFieldLines(cmnd, arg) ==
    LET type == _python_type(cmnd.name, arg).s
        start == <<" ", " ", " ", " ">> \o _valid_python_name(arg.name) \o <<":", " ">>
    IN IF arg.default = None
       THEN {start \o form \o rest :
               form \in OptionalForms(type), rest \in {<< >>, <<" ", "=", " ", "N", "o", "n", "e">>}}
       ELSE IF arg.type = <<"s", "t", "r", "i", "n", "g">>
       THEN IF arg.default.s = << >>
            THEN {start \o type \o <<" ", "=", " ", "'", "'">>}
            ELSE {start \o type \o <<" ", "=", " ">> \o <<"\"">> \o arg.default.s \o <<"\"">>}
       ELSE IF arg.type = <<"e", "n", "u", "m">>
       THEN {start \o type \o <<" ", "=", " ">> \o type \o <<".">> \o _valid_python_name(arg.default.s)}
       ELSE {start \o type \o <<" ", "=", " ">> \o arg.default.s}

\* C25: in every printed text the field of an argument has a quoted literal
\* as default for a non-empty string default, '' for an empty string
\* default and the literal text for the other types; an argument without
\* default gives a field of optional type that has no value as default.
C25_DefaultRendering ==
    \A i \in Printed :
        LET cmnd == main_commands.items[i]
            lines == Split(stdout[i + 1])
        IN \A a \in DOMAIN cmnd.args :
              lines[EnumLines(cmnd) + 1 + a] \in AllowedFieldLines(cmnd, cmnd.args[a])

\* the <i> element of the row that the k-th compiled argument comes from
ElementOf(row, k) ==
    CHOOSE a \in ArgElements(row) :
        Cardinality({b \in ArgElements(row) : b <= a}) = k

\* C30: a compiled argument whose <i> element has no list of its own has
\* no enumeration values: it never takes the list of a later argument, row
\* or table.
C30_OwnListOnly ==
    \A i \in DOMAIN yielded :
        \A k \in DOMAIN yielded[i].args :
            RowAt(i).items[ElementOf(RowAt(i), k)].ul = NoTag =>
                yielded[i].args[k].enum_values = << >>

(***************************************************************************)
(* Claims on the command string of enumeration fields and on the registry. *)
(***************************************************************************)
\* commands.py:902-912, the value of an Enum member
EnumLiteral(v) == (CHOOSE m \in Range(EnumMembers(v.t)) : m.id = v.id).value

\* C29: a field bound to an Enum member is rendered as name="<value>" with
\* the member's value (Waveform="Sine"), not with the member's identifier or
\* qualified name.
C29_EnumLiteral ==
    line # NoLine =>
        \A i \in DOMAIN cmd.values :
            LET f == model_fields(cmd.cls)[i].name
            IN (f \in cmd.fields_set /\ cmd.values[i].k = "enum") =>
                   HasComponentWith(line.pieces, f, EnumLiteral(cmd.values[i]))

\* cli.py:69, the class that build_cli's variable command_class holds; the
\* function cmd of every sub-command reads this variable when it is invoked
\* (cli.py:73)
LoopVariable ==
    IF cli_idx = 0 \/ _command_classes = << >> THEN NoCall
    ELSE IF cli_idx > Len(_command_classes)
    THEN _command_classes[Len(_command_classes)]
    ELSE _command_classes[cli_idx]

\* C28: when build_cli has ended, every registered class has its
\* sub-command, and invoking that sub-command constructs a command of that
\* class: the class its function reads is the class it was built for.
C28_OwnType ==
    BuildEnded =>
        \A i \in DOMAIN _command_classes :
            /\ i \in DOMAIN cli_group
            /\ cli_group[i].cls = _command_classes[i]
            /\ LoopVariable = cli_group[i].cls

(***************************************************************************)
(* commands.py:61-72, the registry of command classes and its callers.     *)
(* A list object is its items and the object it is: the registry's own     *)
(* list or a list of the caller.                                           *)
(***************************************************************************)
\* most calls of register_command after the import of the catalog, and
\* longest list a caller makes of the one it got
MaxRegister == 2
MaxListed == 5

\* classes a program registers later: one of the catalog again, and new ones
LaterClasses == {"New", "Stop", "Play"}

\* variant: the registry's own list is handed out
all_command_classes_alias == [obj |-> "registry", items |-> _command_classes]

\* commands.py:64-66, list(_command_classes) is a new list
all_command_classes == [obj |-> "copy", items |-> _command_classes]

\* commands.py:64-66, a caller asks for the registered classes
AllCommandClasses ==
    /\ listed' = all_command_classes
    /\ UNCHANGED <<_command_classes, registered>>
    /\ UNCHANGED <<valueVars, doVars, cliVars, extractVars>>

\* what a caller does to the list it got
Mutations(items) ==
    {Append(items, "Bogus"), << >>}
    \cup (IF items = << >> THEN {} ELSE {Tail(items), SubSeq(items, 1, Len(items) - 1)})

\* the caller changes the list it got; the registry changes with it only
\* when the two are the same object
MutateListed(items) ==
    /\ listed.obj # "none"
    /\ listed' = [listed EXCEPT !.items = items]
    /\ _command_classes' = IF listed.obj = "registry" THEN items ELSE _command_classes
    /\ UNCHANGED registered
    /\ UNCHANGED <<valueVars, doVars, cliVars, extractVars>>

MutateListedAny ==
    /\ listed.obj # "none"
    /\ \E items \in {m \in Mutations(listed.items) : Len(m) <= MaxListed} :
          MutateListed(items)

\* commands.py:69-72
register_command(cls) ==
    /\ _command_classes' = Append(_command_classes, cls)
    /\ registered' = Append(registered, cls)
    /\ listed' = IF listed.obj = "registry"
                 THEN [listed EXCEPT !.items = _command_classes']
                 ELSE listed
    /\ UNCHANGED <<valueVars, doVars, cliVars, extractVars>>

RegisterCommandAny ==
    /\ Len(registered) < MaxRegister
    /\ \E cls \in LaterClasses : register_command(cls)

NextRegistry ==
    \/ RegisterCommandAny
    \/ AllCommandClasses
    \/ MutateListedAny

SpecRegistry == Init /\ [][NextRegistry]_vars

\* no function of commands.py or cli.py has been called
CommandsIdle == command_class = NoCall /\ pc = "idle"
CliIdle == cli_pc = "idle"
RegistryIdle == listed.obj = "none"

\* one use of the built schema: the commands module, the CLI, or a caller
\* of all_command_classes()
NextSchema ==
    \/ CliIdle /\ RegistryIdle /\ Next
    \/ CommandsIdle /\ RegistryIdle /\ NextCli
    \/ CommandsIdle /\ CliIdle /\ AllCommandClasses
    \/ CommandsIdle /\ CliIdle /\ MutateListedAny

SpecSchema == Init /\ [][NextSchema]_vars

\* C26: using the built schema leaves it as it was: after building the CLI,
\* constructing a command from flags, reading a command string, running
\* do() or changing a list got from all_command_classes(), the registered
\* classes are those of the catalog and all_command_classes() returns them.
C26_SchemaReadOnly ==
    /\ _command_classes = CatalogClasses
    /\ all_command_classes.items = CatalogClasses

\* a caller has appended to the list it got, and the registry has not
\* changed
C26_Witness ==
    /\ listed.obj = "copy"
    /\ listed.items = Append(CatalogClasses, "Bogus")
    /\ _command_classes = CatalogClasses

RECURSIVE Dedup(_)
\* the sequence without the later occurrences of its members
Dedup(seq) ==
    IF seq = << >> THEN << >>
    ELSE LET init == Dedup(SubSeq(seq, 1, Len(seq) - 1))
             last == seq[Len(seq)]
         IN IF last \in Range(init) THEN init ELSE Append(init, last)

\* C27: all_command_classes() returns the classes in the order they were
\* first registered, each once, however often register_command was called
\* for a class.
C27_UniqueInOrder ==
    all_command_classes.items = Dedup(CatalogClasses \o registered)

====
